---------------------------- MODULE Spec2Model ----------------------------
(***************************************************************************)
(* A model of govici: the vici Message tree and its wire codec             *)
(* (message.go) and the Session built on two transports (session.go).      *)
(*                                                                         *)
(* Byte strings are sequences of numbers in 0..255.  A Message is a record *)
(* [keys, data]: keys is the ordered key list, data the map from key to    *)
(* the stored element.  A stored element (a Go interface{} value) is a     *)
(* record [kind, ok, v]: kind is the reflect.Kind of the value, ok tells   *)
(* whether the type assertion the code makes for that kind succeeds        *)
(* ([]string for a Slice, *Message for a Ptr), v is the value.             *)
(***************************************************************************)
EXTENDS Integers, Sequences, FiniteSets, TLC

VARIABLES
    \* a Message and the results of the last call on it
    m, wire, dec, last,
    \* the record MarshalMessage or UnmarshalMessage was given, and the
    \* record UnmarshalMessage left
    rec, target, out,
    \* the Session's command side: the mutex, the callers, the command
    \* transport (frames to and from the daemon, and the log of the wire)
    mux, pc, call, stream, ret, c2d, d2c, clog,
    \* the daemon's end of the command transport
    dreg, dstream, cseq,
    \* the event listener: where Listen is, its arguments and error, the
    \* local subscription set, the event transport, the event queue
    lpc, lnames, lidx, lconf, lbefore, lerr, listens, subs, etok, e2d, d2e, evq,
    \* what the listener read and issued, and what NextEvent returned
    erecv, eloop, unreg, delivered,
    \* the daemon's end of the event transport
    dsubs, eseq

schVars == <<rec, target, out>>

codecVars == <<m, wire, dec, last, schVars>>

cmdVars == <<mux, pc, call, stream, ret, c2d, d2c, clog, dreg, dstream, cseq>>

evVars == <<lpc, lnames, lidx, lconf, lbefore, lerr, listens, subs, etok, e2d, d2e,
            evq, erecv, eloop, unreg, delivered, dsubs, eseq>>

vars == <<codecVars, cmdVars, evVars>>

-----------------------------------------------------------------------------
(* Bounds of the model *)

\* most keys a message under construction holds
MaxKeys == 2

\* callers of the session's command requests
NThreads == 2

\* most events the daemon streams for one command
MaxStream == 2

\* most names one Listen is given
MaxNames == 2

\* calls of Listen in a run
MaxListens == 2

\* most events the daemon raises on the event transport
MaxEvents == 2

\* capacity of the event queue
QueueCap == 2

\* deepest nesting of the sections handed to Set
MaxDepth == 1

-----------------------------------------------------------------------------
(* Program constants *)

msgSectionStart == 1
msgSectionEnd == 2
msgKeyValue == 3
msgListStart == 4
msgListItem == 5
msgListEnd == 6

\* uint8(len(key)) and PutUint16(uint16(len(value))) keep 8 and 16 bits
U8 == 256
U16 == 65536

nil == "nil"
errEncoding == "errEncoding"
errDecoding == "errDecoding"
errUnsupportedType == "errUnsupportedType"
errCommandFailed == "errCommandFailed"
errBadKey == "errBadKey"
errBadValue == "errBadValue"
errEndOfBuffer == "errEndOfBuffer"
errExpectedBeginning == "errExpectedBeginning"

\* the errors built from errMalformedMessage
errMalformedMessage == {errBadKey, errBadValue, errEndOfBuffer, errExpectedBeginning}

-----------------------------------------------------------------------------
(* Go values *)

StringV(s) == [kind |-> "String", ok |-> TRUE, v |-> s]
SliceV(l) == [kind |-> "Slice", ok |-> TRUE, v |-> l]
PtrV(msg) == [kind |-> "Ptr", ok |-> TRUE, v |-> msg]
\* values Set does not accept: an int, a []int, a pointer to something else
IntV == [kind |-> "Int", ok |-> FALSE, v |-> <<>>]
OtherSliceV == [kind |-> "Slice", ok |-> FALSE, v |-> <<>>]
OtherPtrV == [kind |-> "Ptr", ok |-> FALSE, v |-> <<>>]
\* the nil interface{} a map lookup gives for a missing key
NilV == [kind |-> "Nil", ok |-> FALSE, v |-> <<>>]

\* bytes.Buffer.Next(n): the next n bytes, or what is left
Next_(buf, n) == SubSeq(buf, 1, IF n < Len(buf) THEN n ELSE Len(buf))
\* the buffer after Next(n)
Skip(buf, n) == SubSeq(buf, (IF n < Len(buf) THEN n ELSE Len(buf)) + 1, Len(buf))

\* binary.BigEndian.PutUint16(b, uint16(n))
PutUint16(n) == <<((n % U16) \div U8), (n % U16) % U8>>
\* binary.BigEndian.Uint16(b)
Uint16(b) == b[1] * U8 + b[2]

-----------------------------------------------------------------------------
(* Message tree *)

NewMessage == [keys |-> <<>>, data |-> <<>>]

NoDup(seq) == \A i, j \in DOMAIN seq : i # j => seq[i] # seq[j]

Keys(msg) == msg.keys

Has(msg, key) == key \in DOMAIN msg.data

Get(msg, key) == IF Has(msg, key) THEN msg.data[key] ELSE NilV

Store(msg, key, value) ==
    [k \in (DOMAIN msg.data) \cup {key} |-> IF k = key THEN value ELSE msg.data[k]]

addItem_dup(msg, key, value) ==
    IF value.kind \in {"String", "Slice", "Ptr"} /\ value.ok
    THEN [m |-> [keys |-> Append(msg.keys, key), data |-> Store(msg, key, value)],
          err |-> nil]
    ELSE [m |-> msg, err |-> errUnsupportedType]

addItem_early(msg, key, value) ==
    LET keys == IF Has(msg, key) THEN msg.keys ELSE Append(msg.keys, key)
    IN IF value.kind \in {"String", "Slice", "Ptr"} /\ value.ok
       THEN [m |-> [keys |-> keys, data |-> Store(msg, key, value)], err |-> nil]
       ELSE [m |-> [keys |-> keys, data |-> msg.data], err |-> errUnsupportedType]

addItem(msg, key, value) ==
    LET exists == Has(msg, key)
    IN IF value.kind \in {"String", "Slice", "Ptr"} /\ value.ok
       THEN [m |-> [keys |-> IF exists THEN msg.keys ELSE Append(msg.keys, key),
                    data |-> Store(msg, key, value)],
             err |-> nil]
       ELSE [m |-> msg, err |-> errUnsupportedType]

-----------------------------------------------------------------------------
(* Encoder *)

encodeKeyValue_le(key, value) ==
    [data |-> <<msgKeyValue, Len(key) % U8>> \o key
              \o <<Len(value) % U8, (Len(value) % U16) \div U8>> \o value,
     err |-> nil]

encodeKeyValue(key, value) ==
    [data |-> <<msgKeyValue, Len(key) % U8>> \o key \o PutUint16(Len(value)) \o value,
     err |-> nil]

RECURSIVE encodeItems(_, _)
encodeItems(list, i) ==
    IF i > Len(list) THEN <<>>
    ELSE <<msgListItem>> \o PutUint16(Len(list[i])) \o list[i] \o encodeItems(list, i + 1)

encodeList(key, list) ==
    [data |-> <<msgListStart, Len(key) % U8>> \o key \o encodeItems(list, 1)
              \o <<msgListEnd>>,
     err |-> nil]

RECURSIVE encodeSection(_, _)
RECURSIVE encodeElement(_, _)
RECURSIVE encodeElements(_, _)

\* the switch on rv.Kind() in encode and in encodeSection
encodeElement(k, v) ==
    CASE v.kind = "String" -> encodeKeyValue(k, v.v)
      [] v.kind = "Slice" -> encodeList(k, v.v)
      [] v.kind = "Ptr" ->
            IF v.ok THEN encodeSection(k, v.v)
            ELSE [data |-> <<>>, err |-> errUnsupportedType]
      [] OTHER -> [data |-> <<>>, err |-> errUnsupportedType]

\* buf.Write(data) after the elements that follow have been written
encodeJoin(e, r) ==
    IF r.err # nil THEN r ELSE [data |-> e.data \o r.data, err |-> nil]

\* one turn of the loop: e is the encoding of the i-th element
encodeStep(e, msg, i) ==
    IF e.err # nil THEN [data |-> <<>>, err |-> e.err]
    ELSE encodeJoin(e, encodeElements(msg, i + 1))

\* for e := range msg.elements(): the elements from the i-th key on
encodeElements(msg, i) ==
    IF i > Len(msg.keys) THEN [data |-> <<>>, err |-> nil]
    ELSE encodeStep(encodeElement(msg.keys[i], msg.data[msg.keys[i]]), msg, i)

\* the section's bytes once its elements are encoded as body
encodeSectionBody(key, body) ==
    IF body.err # nil THEN [data |-> <<>>, err |-> body.err]
    ELSE [data |-> <<msgSectionStart, Len(key) % U8>> \o key \o body.data
                   \o <<msgSectionEnd>>,
          err |-> nil]

encodeSection(key, section) == encodeSectionBody(key, encodeElements(section, 1))

encode(msg) == encodeElements(msg, 1)

-----------------------------------------------------------------------------
(* Decoder.  Each decodeX(msg, data) gives [m, n, err]: the message after  *)
(* the call, the count of bytes decoded, the error.                        *)

Failed(msg, e) == [m |-> msg, n |-> -1, err |-> e]

decodeKeyValue(msg, data) ==
    IF Len(data) = 0 THEN Failed(msg, errDecoding)
    ELSE LET keyLen == data[1]
             b1 == Tail(data)
             key == Next_(b1, keyLen)
             b2 == Skip(b1, keyLen)
             v == Next_(b2, 2)
             b3 == Skip(b2, 2)
             valueLen == Uint16(v)
             value == Next_(b3, valueLen)
             add == addItem(msg, key, StringV(value))
         IN IF Len(key) # keyLen THEN Failed(msg, errBadKey)
            ELSE IF Len(v) # 2 THEN Failed(msg, errEndOfBuffer)
            ELSE IF Len(value) # valueLen THEN Failed(msg, errBadValue)
            ELSE IF add.err # nil THEN Failed(msg, errDecoding)
            ELSE [m |-> add.m, n |-> keyLen + valueLen + 3, err |-> nil]

\* for b != msgListEnd { ... } of decodeList
RECURSIVE decodeListItems(_, _, _, _)
decodeListItems(buf, b, list, count) ==
    IF b = msgListEnd THEN [list |-> list, count |-> count, err |-> nil]
    ELSE IF b # msgListItem THEN [list |-> list, count |-> -1, err |-> errExpectedBeginning]
    ELSE LET v == Next_(buf, 2)
             b2 == Skip(buf, 2)
             valueLen == Uint16(v)
             value == Next_(b2, valueLen)
             b3 == Skip(b2, valueLen)
         IN IF Len(v) # 2 THEN [list |-> list, count |-> -1, err |-> errEndOfBuffer]
            ELSE IF Len(value) # valueLen
                 THEN [list |-> list, count |-> -1, err |-> errBadValue]
            ELSE IF Len(b3) = 0 THEN [list |-> list, count |-> -1, err |-> errDecoding]
            ELSE decodeListItems(Tail(b3), b3[1], Append(list, value),
                                 count + valueLen + 3)

\* the end of decodeList: r is what the item loop gave
decodeListEnd(msg, key, r) ==
    IF r.err # nil THEN Failed(msg, r.err)
    ELSE IF addItem(msg, key, SliceV(r.list)).err # nil THEN Failed(msg, errDecoding)
    ELSE [m |-> addItem(msg, key, SliceV(r.list)).m, n |-> r.count, err |-> nil]

decodeList(msg, data) ==
    IF Len(data) = 0 THEN Failed(msg, errDecoding)
    ELSE LET keyLen == data[1]
             b1 == Tail(data)
             key == Next_(b1, keyLen)
             b2 == Skip(b1, keyLen)
         IN IF Len(key) # keyLen THEN Failed(msg, errBadKey)
            ELSE IF Len(b2) = 0 THEN Failed(msg, errDecoding)
            ELSE decodeListEnd(msg, key,
                               decodeListItems(Tail(b2), b2[1], <<>>, keyLen + 2))

RECURSIVE decodeSection(_, _)
RECURSIVE decodeSectionElements(_, _, _, _)

\* the rest of a turn of decodeSection's loop: r is what the element's
\* decoder gave
decodeSectionStep(r, section, buf, count) ==
    IF r.err # nil THEN Failed(section, r.err)
    ELSE IF Len(Skip(buf, r.n)) = 0 THEN Failed(section, errDecoding)
    ELSE decodeSectionElements(r.m, Tail(Skip(buf, r.n)), Skip(buf, r.n)[1],
                               count + r.n + 1)

\* for b != msgSectionEnd { switch b { ... } } of decodeSection
decodeSectionElements(section, buf, b, count) ==
    CASE b = msgSectionEnd -> [m |-> section, n |-> count, err |-> nil]
      [] b = msgKeyValue ->
            decodeSectionStep(decodeKeyValue(section, buf), section, buf, count)
      [] b = msgListStart ->
            decodeSectionStep(decodeList(section, buf), section, buf, count)
      [] b = msgSectionStart ->
            decodeSectionStep(decodeSection(section, buf), section, buf, count)
      [] OTHER -> Failed(section, errExpectedBeginning)

\* the end of decodeSection: r is what the element loop gave
decodeSectionEnd(msg, key, r) ==
    IF r.err # nil THEN Failed(msg, r.err)
    ELSE IF addItem(msg, key, PtrV(r.m)).err # nil
         THEN Failed(msg, addItem(msg, key, PtrV(r.m)).err)
    ELSE [m |-> addItem(msg, key, PtrV(r.m)).m, n |-> r.n, err |-> nil]

decodeSection(msg, data) ==
    IF Len(data) = 0 THEN Failed(msg, errDecoding)
    ELSE LET keyLen == data[1]
             b1 == Tail(data)
             key == Next_(b1, keyLen)
             b2 == Skip(b1, keyLen)
         IN IF Len(key) # keyLen THEN Failed(msg, errBadKey)
            ELSE IF Len(b2) = 0 THEN Failed(msg, errDecoding)
            ELSE decodeSectionEnd(msg, key,
                     decodeSectionElements(NewMessage, Tail(b2), b2[1], keyLen + 2))

RECURSIVE decodeElements(_, _, _)

\* the rest of a turn of decode's loop: buf.Next(n), then b, err = buf.ReadByte()
\* (at the end of the buffer b is 0 and the io.EOF is let pass)
decodeStep(r, buf) ==
    IF r.err # nil THEN [m |-> r.m, err |-> r.err]
    ELSE IF Len(Skip(buf, r.n)) = 0 THEN decodeElements(r.m, <<>>, 0)
    ELSE decodeElements(r.m, Tail(Skip(buf, r.n)), Skip(buf, r.n)[1])

\* for buf.Len() > 0 { switch b { ... } } of decode; the switch has no default
decodeElements(msg, buf, b) ==
    IF Len(buf) = 0 THEN [m |-> msg, err |-> nil]
    ELSE CASE b = msgKeyValue -> decodeStep(decodeKeyValue(msg, buf), buf)
           [] b = msgListStart -> decodeStep(decodeList(msg, buf), buf)
           [] b = msgSectionStart -> decodeStep(decodeSection(msg, buf), buf)
           [] OTHER -> decodeStep([m |-> msg, n |-> 0, err |-> nil], buf)

decode(msg, data) ==
    IF Len(data) = 0 THEN decodeElements(msg, data, 0)
    ELSE decodeElements(msg, Tail(data), data[1])

-----------------------------------------------------------------------------
(* Message.Err *)

\* "success", "errmsg", "yes" and "<nil>" as bytes
Ksuccess == <<115, 117, 99, 99, 101, 115, 115>>
Kerrmsg == <<101, 114, 114, 109, 115, 103>>
Yes == <<121, 101, 115>>
NilText == <<60, 110, 105, 108, 62>>

\* a < b as Go compares strings
RECURSIVE LessStr(_, _)
LessStr(a, b) ==
    IF Len(b) = 0 THEN FALSE
    ELSE IF Len(a) = 0 THEN TRUE
    ELSE IF a[1] # b[1] THEN a[1] < b[1]
    ELSE LessStr(Tail(a), Tail(b))

\* the keys of a map in the order fmt prints them (sorted)
RECURSIVE SortedKeys(_)
SortedKeys(S) ==
    IF S = {} THEN <<>>
    ELSE LET k == CHOOSE x \in S : \A y \in S \ {x} : LessStr(x, y)
         IN <<k>> \o SortedKeys(S \ {k})

\* fmt's %v of a []string: [a b c]
RECURSIVE fmtItems(_, _)
fmtItems(list, i) ==
    IF i > Len(list) THEN <<>>
    ELSE (IF i > 1 THEN <<32>> ELSE <<>>) \o list[i] \o fmtItems(list, i + 1)

fmtSlice(list) == <<91>> \o fmtItems(list, 1) \o <<93>>

\* %v of an element held in a map: a nested *Message prints as its address,
\* of which only the leading 0x is fixed
fmtInner(e) ==
    CASE e.kind = "String" -> e.v
      [] e.kind = "Slice" -> fmtSlice(e.v)
      [] OTHER -> <<48, 120>>

RECURSIVE fmtMap(_, _, _)
fmtMap(data, ks, i) ==
    IF i > Len(ks) THEN <<>>
    ELSE (IF i > 1 THEN <<32>> ELSE <<>>) \o ks[i] \o <<58>> \o fmtInner(data[ks[i]])
         \o fmtMap(data, ks, i + 1)

\* fmt's %v of m.data["errmsg"]: nil prints <nil>, a string its contents,
\* a *Message as &{[keys] map[k:v ...]}
fmtV(e) ==
    IF e.kind = "Nil" THEN NilText
    ELSE CASE e.kind = "String" -> e.v
           [] e.kind = "Slice" -> fmtSlice(e.v)
           [] OTHER -> <<38, 123>> \o fmtSlice(e.v.keys) \o <<32, 109, 97, 112, 91>>
                       \o fmtMap(e.v.data, SortedKeys(DOMAIN e.v.data), 1) \o <<93, 125>>

Err_valueOnly(msg) ==
    IF Has(msg, Ksuccess) /\ msg.data[Ksuccess].kind = "String"
       /\ msg.data[Ksuccess].v # Yes
    THEN [err |-> errCommandFailed, text |-> fmtV(Get(msg, Kerrmsg))]
    ELSE [err |-> nil, text |-> <<>>]

\* success != "yes" compares an interface{} with a string: equal only when
\* the stored value is the string "yes"
Err(msg) ==
    IF Has(msg, Ksuccess)
       /\ ~(msg.data[Ksuccess].kind = "String" /\ msg.data[Ksuccess].v = Yes)
    THEN [err |-> errCommandFailed, text |-> fmtV(Get(msg, Kerrmsg))]
    ELSE [err |-> nil, text |-> <<>>]

-----------------------------------------------------------------------------
(* Inputs *)

Ka == <<97>>
Kb == <<98>>
\* a key one byte longer than a key-length byte can tell
LongKey == [i \in 1..U8 |-> 97]

InKeys == {<<>>, Ksuccess, Kerrmsg, LongKey}

\* the message built by Set(kvs[1][1], kvs[1][2]), Set(kvs[2][1], kvs[2][2]), ...
RECURSIVE MsgOf(_, _)
MsgOf(kvs, n) ==
    IF n = 0 THEN NewMessage
    ELSE addItem(MsgOf(kvs, n - 1), kvs[n][1], kvs[n][2]).m

RECURSIVE Sections(_)
Sections(d) ==
    IF d = 0 THEN {NewMessage}
    ELSE LET S == Sections(d - 1)
         IN {NewMessage}
            \cup {MsgOf(<< <<Ka, StringV(Yes)>>, <<Kb, PtrV(s)>> >>, 2) : s \in S}
            \cup {MsgOf(<< <<Kb, SliceV(<<Ka>>)>>, <<(<<>>), PtrV(s)>> >>, 2) : s \in S}

Supported ==
    {StringV(<<>>), StringV(Yes)}
    \cup {SliceV(<<>>), SliceV(<<Yes, <<>>>>)}
    \cup {PtrV(s) : s \in Sections(MaxDepth)}

Unsupported == {IntV, OtherSliceV, OtherPtrV}

\* every key of msg, at every nesting level
RECURSIVE AllKeys(_)
AllKeys(msg) ==
    UNION {{k} \cup (IF msg.data[k].kind = "Ptr" THEN AllKeys(msg.data[k].v) ELSE {})
           : k \in DOMAIN msg.data}

\* every key length fits the key-length byte
KeysFit(msg) == \A k \in AllKeys(msg) : Len(k) < U8

WellFormed(msg) == \A k \in AllKeys(msg) : Len(k) >= 1 /\ Len(k) < U8

ElemLen(k, v) == Len(encodeElement(k, v).data)

Insert(w, pos, b) == SubSeq(w, 1, pos) \o <<b>> \o SubSeq(w, pos + 1, Len(w))
Remove(w, p) == SubSeq(w, 1, p - 1) \o SubSeq(w, p + 1, Len(w))

\* the offsets in encode(msg) at which the decoder expects an item of a list
RECURSIVE ListStarts(_, _, _)
ListStarts(list, i, off) ==
    {[pos |-> off, ctx |-> "list"]}
    \cup (IF i > Len(list) THEN {} ELSE ListStarts(list, i + 1, off + 3 + Len(list[i])))

\* the offsets at which the decoder expects an element start, from the i-th
\* key of msg on, off bytes into the encoding
RECURSIVE Starts(_, _, _, _)
Starts(msg, i, off, ctx) ==
    {[pos |-> off, ctx |-> ctx]}
    \cup (IF i > Len(msg.keys) THEN {}
          ELSE LET k == msg.keys[i]
                   v == msg.data[k]
               IN (CASE v.kind = "Slice" -> ListStarts(v.v, 1, off + 2 + Len(k))
                     [] v.kind = "Ptr" -> Starts(v.v, 1, off + 2 + Len(k), "section")
                     [] OTHER -> {})
                  \cup Starts(msg, i + 1, off + ElemLen(k, v), ctx))

\* the positions in encode(msg) of the list and section end markers
RECURSIVE Terminators(_, _, _)
Terminators(msg, i, off) ==
    IF i > Len(msg.keys) THEN {}
    ELSE LET k == msg.keys[i]
             v == msg.data[k]
         IN (CASE v.kind = "Slice" -> {off + ElemLen(k, v)}
               [] v.kind = "Ptr" -> {off + ElemLen(k, v)}
                                    \cup Terminators(v.v, 1, off + 2 + Len(k))
               [] OTHER -> {})
            \cup Terminators(msg, i + 1, off + ElemLen(k, v))

\* a byte that starts no element where ctx expects one
BadBytes(ctx) == IF ctx = "list" THEN {msgKeyValue} ELSE {9}

\* what decode is given: the encoding of msg as it is, cut short, with an
\* end marker left out, with a stray byte where an element should start, or
\* followed by the first byte of an element, or twice over (every key comes
\* a second time)
DecodeInputs(msg, w) ==
    {[kind |-> "wire", ctx |-> "", data |-> w]}
    \cup (IF Len(w) > 0 /\ KeysFit(msg)
          THEN {[kind |-> "truncated", ctx |-> "", data |-> SubSeq(w, 1, Len(w) - 1)]}
               \cup {[kind |-> "unterminated", ctx |-> "", data |-> Remove(w, p)]
                     : p \in Terminators(msg, 1, 0)}
               \cup {[kind |-> "trailing", ctx |-> "", data |-> w \o <<msgKeyValue>>]}
               \cup {[kind |-> "doubled", ctx |-> "", data |-> w \o w]}
          ELSE {})
    \cup (IF KeysFit(msg)
          THEN UNION {{[kind |-> "badstart", ctx |-> s.ctx, data |-> Insert(w, s.pos, b)]
                       : b \in BadBytes(s.ctx)} : s \in Starts(msg, 1, 0, "top")}
          ELSE {})

-----------------------------------------------------------------------------
(* Operations on a Message *)

MsgInit ==
    /\ m = NewMessage
    /\ wire = <<>>
    /\ dec = NewMessage
    /\ last = [op |-> "init"]
    /\ rec = <<>>
    /\ target = <<>>
    /\ out = <<>>

\* m.Set(key, value)
Set(key, value) ==
    /\ Len(m.keys) < MaxKeys \/ Has(m, key)
    /\ m' = addItem(m, key, value).m
    /\ last' = [op |-> "Set", key |-> key, value |-> value,
                err |-> addItem(m, key, value).err]
    /\ wire' = <<>>
    /\ dec' = NewMessage
    /\ rec' = <<>>
    /\ target' = <<>>
    /\ out' = <<>>
    /\ UNCHANGED <<cmdVars, evVars>>

Encoded(r) ==
    /\ wire' = r.data
    /\ last' = [op |-> "encode", err |-> r.err]

\* wire, err = m.encode()
Encode ==
    /\ last.op # "encode"
    /\ Encoded(encode(m))
    /\ dec' = NewMessage
    /\ UNCHANGED <<m, schVars, cmdVars, evVars>>

Decoded(in, r) ==
    /\ dec' = r.m
    /\ last' = [op |-> "decode", in |-> in, err |-> r.err]

\* err = NewMessage().decode(in.data), on the bytes of the last encode
Decode ==
    /\ last.op \in {"encode", "decode"}
    /\ \E in \in DecodeInputs(m, wire) :
          Decoded(in, decode(NewMessage, in.data))
    /\ UNCHANGED <<m, wire, schVars, cmdVars, evVars>>

\* err = m.Err()
CheckErr ==
    /\ last.op # "Err"
    /\ last' = [op |-> "Err", err |-> Err(m).err, text |-> Err(m).text]
    /\ wire' = <<>>
    /\ dec' = NewMessage
    /\ UNCHANGED <<m, schVars, cmdVars, evVars>>

Next ==
    \/ \E key \in InKeys, value \in Supported \cup Unsupported : Set(key, value)
    \/ Encode
    \/ Decode
    \/ CheckErr

-----------------------------------------------------------------------------
(* Session: command requests.  A frame on the wire is [type, name, body];  *)
(* by and n are not on the wire: by names the caller whose request the     *)
(* frame is or answers, n numbers the events the daemon streams.           *)

Threads == 1..NThreads

Cmds == {"list-sas", "nope"}
KnownCmds == {"list-sas"}
EventNames == {"list-sa", "log"}
KnownEvents == {"list-sa", "log"}
UnknownEventName == "none"

Frame(type, name, body, by, n) ==
    [type |-> type, name |-> name, body |-> body, by |-> by, n |-> n]

NoFrame == Frame("", "", <<>>, 0, 0)

\* the messages carried: a request, a reply, the n-th streamed event
RequestMsg(t) == addItem(NewMessage, Ka, StringV(<<t>>)).m
ReplyMsg(t) == addItem(addItem(NewMessage, Ksuccess, StringV(Yes)).m, Kb, StringV(<<t>>)).m
EventMsg(n) == addItem(NewMessage, Kb, SliceV(<<(<<n>>)>>)).m

Calls ==
    {[kind |-> "cmd", cmd |-> c, event |-> ""] : c \in Cmds}
    \cup {[kind |-> "stream", cmd |-> c, event |-> e]
          : c \in Cmds, e \in {"list-sa", UnknownEventName}}

NoCall == [kind |-> "", cmd |-> "", event |-> ""]
NoRet == [status |-> "none", reply |-> NewMessage, frame |-> NoFrame]

CmdInit ==
    /\ mux = 0
    /\ pc = [t \in Threads |-> "idle"]
    /\ call = [t \in Threads |-> NoCall]
    /\ stream = [t \in Threads |-> <<>>]
    /\ ret = [t \in Threads |-> NoRet]
    /\ c2d = <<>>
    /\ d2c = <<>>
    /\ clog = <<>>
    /\ dreg = {}
    /\ dstream = [on |-> FALSE, by |-> 0, left |-> 0]
    /\ cseq = 0

\* s.ctr.send(p)
CtrSend(f) ==
    /\ c2d' = Append(c2d, f)
    /\ clog' = Append(clog, f)

Lock_nomutex(t, c) ==
    /\ pc[t] = "idle"
    /\ mux' = t
    /\ call' = [call EXCEPT ![t] = c]
    /\ pc' = [pc EXCEPT ![t] = IF c.kind = "cmd" THEN "send" ELSE "register"]
    /\ UNCHANGED <<stream, ret, c2d, d2c, clog, dreg, dstream, cseq>>

\* a call of CommandRequest or StreamedCommandRequest acquires the mutex
Lock(t, c) ==
    /\ pc[t] = "idle"
    /\ mux = 0
    /\ mux' = t
    /\ call' = [call EXCEPT ![t] = c]
    /\ pc' = [pc EXCEPT ![t] = IF c.kind = "cmd" THEN "send" ELSE "register"]
    /\ UNCHANGED <<stream, ret, c2d, d2c, clog, dreg, dstream, cseq>>

\* send CmdRequest(cmd, encode(msg))
SendRequest(t) ==
    /\ pc[t] = "send"
    /\ CtrSend(Frame("CmdRequest", call[t].cmd, encode(RequestMsg(t)).data, t, 0))
    /\ pc' = [pc EXCEPT ![t] = IF call[t].kind = "cmd" THEN "recv" ELSE "streamrecv"]
    /\ UNCHANGED <<mux, call, stream, ret, d2c, dreg, dstream, cseq>>

\* what a command request makes of the one packet it reads
Reply(p, r) ==
    CASE p.type = "CmdResponse" -> [status |-> "ok", reply |-> r.m, frame |-> p]
      [] p.type = "CmdUnknown" ->
            [status |-> "UnknownCommand", reply |-> NewMessage, frame |-> p]
      [] OTHER -> [status |-> "Unexpected", reply |-> NewMessage, frame |-> p]

\* read one packet: the reply
RecvReply(t) ==
    /\ pc[t] = "recv"
    /\ d2c # <<>>
    /\ ret' = [ret EXCEPT ![t] = Reply(Head(d2c), decode(NewMessage, Head(d2c).body))]
    /\ d2c' = Tail(d2c)
    /\ pc' = [pc EXCEPT ![t] = "unlock"]
    /\ UNCHANGED <<mux, call, stream, c2d, clog, dreg, dstream, cseq>>

\* send EventRegister(event_name) on the command transport
SendRegister(t) ==
    /\ pc[t] = "register"
    /\ CtrSend(Frame("EventRegister", call[t].event, <<>>, t, 0))
    /\ pc' = [pc EXCEPT ![t] = "regwait"]
    /\ UNCHANGED <<mux, call, stream, ret, d2c, dreg, dstream, cseq>>

\* await EventConfirm or EventUnknown
RecvRegister(t) ==
    /\ pc[t] = "regwait"
    /\ d2c # <<>>
    /\ IF Head(d2c).type = "EventConfirm"
       THEN /\ pc' = [pc EXCEPT ![t] = "send"]
            /\ ret' = ret
       ELSE /\ pc' = [pc EXCEPT ![t] = "unlock"]
            /\ ret' = [ret EXCEPT ![t] = [status |-> "UnknownEvent",
                                          reply |-> NewMessage, frame |-> Head(d2c)]]
    /\ d2c' = Tail(d2c)
    /\ UNCHANGED <<mux, call, stream, c2d, clog, dreg, dstream, cseq>>

Streamed_anyName(t, p, r) ==
    CASE p.type = "Event" -> Append(stream[t], r.m)
      [] p.type = "CmdResponse" -> Append(stream[t], r.m)
      [] OTHER -> stream[t]

\* the stream after packet p, whose body decodes to r
Streamed(t, p, r) ==
    CASE p.type = "Event" /\ p.name = call[t].event -> Append(stream[t], r.m)
      [] p.type = "CmdResponse" -> Append(stream[t], r.m)
      [] OTHER -> stream[t]

\* read packets: every Event of the name asked for joins the stream, until
\* the final CmdResponse (the last of the stream) or CmdUnknown
RecvStream(t) ==
    /\ pc[t] = "streamrecv"
    /\ d2c # <<>>
    /\ stream' = [stream EXCEPT
                    ![t] = Streamed(t, Head(d2c), decode(NewMessage, Head(d2c).body))]
    /\ ret' = IF Head(d2c).type \in {"Event", "CmdResponse"} THEN ret
              ELSE [ret EXCEPT ![t] = [status |-> "UnknownCommand",
                                       reply |-> NewMessage, frame |-> Head(d2c)]]
    /\ pc' = [pc EXCEPT ![t] = IF Head(d2c).type = "Event" THEN "streamrecv"
                               ELSE "unregister"]
    /\ d2c' = Tail(d2c)
    /\ UNCHANGED <<mux, call, c2d, clog, dreg, dstream, cseq>>

\* send EventUnregister(event_name)
SendUnregister(t) ==
    /\ pc[t] = "unregister"
    /\ CtrSend(Frame("EventUnregister", call[t].event, <<>>, t, 0))
    /\ pc' = [pc EXCEPT ![t] = "unregwait"]
    /\ UNCHANGED <<mux, call, stream, ret, d2c, dreg, dstream, cseq>>

\* await the confirmation of the EventUnregister
RecvUnregister(t) ==
    /\ pc[t] = "unregwait"
    /\ d2c # <<>>
    /\ ret' = IF ret[t].status = "none"
              THEN [ret EXCEPT ![t] = [status |-> "ok", reply |-> NewMessage,
                                       frame |-> Head(d2c)]]
              ELSE ret
    /\ d2c' = Tail(d2c)
    /\ pc' = [pc EXCEPT ![t] = "unlock"]
    /\ UNCHANGED <<mux, call, stream, c2d, clog, dreg, dstream, cseq>>

\* the call returns and releases the mutex
Unlock(t) ==
    /\ pc[t] = "unlock"
    /\ mux' = 0
    /\ pc' = [pc EXCEPT ![t] = "done"]
    /\ UNCHANGED <<call, stream, ret, c2d, d2c, clog, dreg, dstream, cseq>>

\* the daemon puts frame f on the command transport
DaemonSend(f) ==
    /\ d2c' = Append(d2c, f)
    /\ clog' = Append(clog, f)

\* the daemon answers the oldest frame it has not read yet
DaemonAnswer ==
    /\ c2d # <<>>
    /\ ~dstream.on
    /\ c2d' = Tail(c2d)
    /\ LET f == Head(c2d)
       IN CASE f.type = "EventRegister" ->
                 /\ dreg' = IF f.name \in KnownEvents THEN dreg \cup {f.name} ELSE dreg
                 /\ d2c' = Append(d2c, Frame(IF f.name \in KnownEvents
                                             THEN "EventConfirm" ELSE "EventUnknown",
                                             "", <<>>, f.by, 0))
                 /\ clog' = Append(clog, d2c'[Len(d2c')])
                 /\ UNCHANGED dstream
            [] f.type = "EventUnregister" ->
                 /\ dreg' = dreg \ {f.name}
                 /\ d2c' = Append(d2c, Frame("EventConfirm", "", <<>>, f.by, 0))
                 /\ clog' = Append(clog, d2c'[Len(d2c')])
                 /\ UNCHANGED dstream
            [] f.type = "CmdRequest" /\ f.name \notin KnownCmds ->
                 /\ d2c' = Append(d2c, Frame("CmdUnknown", "", <<>>, f.by, 0))
                 /\ clog' = Append(clog, d2c'[Len(d2c')])
                 /\ UNCHANGED <<dreg, dstream>>
            [] f.type = "CmdRequest" /\ f.name \in KnownCmds /\ dreg = {} ->
                 /\ d2c' = Append(d2c, Frame("CmdResponse", "",
                                             encode(ReplyMsg(f.by)).data, f.by, 0))
                 /\ clog' = Append(clog, d2c'[Len(d2c')])
                 /\ UNCHANGED <<dreg, dstream>>
            [] OTHER ->
                 /\ dstream' = [on |-> TRUE, by |-> f.by, left |-> MaxStream]
                 /\ UNCHANGED <<d2c, clog, dreg>>
    /\ UNCHANGED <<mux, pc, call, stream, ret, cseq>>

\* the daemon streams an event while it runs a command for a caller that
\* registered for events
DaemonStreamEvent(name) ==
    /\ dstream.on
    /\ dstream.left > 0
    /\ cseq' = cseq + 1
    /\ DaemonSend(Frame("Event", name, encode(EventMsg(cseq')).data, dstream.by, cseq'))
    /\ dstream' = [dstream EXCEPT !.left = @ - 1]
    /\ UNCHANGED <<mux, pc, call, stream, ret, c2d, dreg>>

\* the daemon ends the command with the final response
DaemonStreamEnd ==
    /\ dstream.on
    /\ DaemonSend(Frame("CmdResponse", "", encode(ReplyMsg(dstream.by)).data,
                        dstream.by, 0))
    /\ dstream' = [on |-> FALSE, by |-> 0, left |-> 0]
    /\ UNCHANGED <<mux, pc, call, stream, ret, c2d, dreg, cseq>>

CmdNext ==
    \/ \E t \in Threads, c \in Calls : Lock(t, c) /\ UNCHANGED <<codecVars, evVars>>
    \/ \E t \in Threads : SendRequest(t) /\ UNCHANGED <<codecVars, evVars>>
    \/ \E t \in Threads : RecvReply(t) /\ UNCHANGED <<codecVars, evVars>>
    \/ \E t \in Threads : SendRegister(t) /\ UNCHANGED <<codecVars, evVars>>
    \/ \E t \in Threads : RecvRegister(t) /\ UNCHANGED <<codecVars, evVars>>
    \/ \E t \in Threads : RecvStream(t) /\ UNCHANGED <<codecVars, evVars>>
    \/ \E t \in Threads : SendUnregister(t) /\ UNCHANGED <<codecVars, evVars>>
    \/ \E t \in Threads : RecvUnregister(t) /\ UNCHANGED <<codecVars, evVars>>
    \/ \E t \in Threads : Unlock(t) /\ UNCHANGED <<codecVars, evVars>>
    \/ DaemonAnswer /\ UNCHANGED <<codecVars, evVars>>
    \/ \E name \in EventNames : DaemonStreamEvent(name) /\ UNCHANGED <<codecVars, evVars>>
    \/ DaemonStreamEnd /\ UNCHANGED <<codecVars, evVars>>

-----------------------------------------------------------------------------
(* Session: the event listener, on the event transport *)

\* the lists of names Listen and unregister are given
RECURSIVE NameLists(_)
NameLists(n) ==
    IF n = 0 THEN {<<>>}
    ELSE LET L == NameLists(n - 1)
         IN L \cup {Append(l, e) : l \in L, e \in (EventNames \cup {UnknownEventName})}

ListenInputs == {l \in NameLists(MaxNames) : Len(l) > 0 /\ NoDup(l)}

EvInit ==
    /\ lpc = "idle"
    /\ lnames = <<>>
    /\ lidx = 0
    /\ lconf = <<>>
    /\ lbefore = {}
    /\ lerr = nil
    /\ listens = 0
    /\ subs = {}
    /\ etok = TRUE
    /\ e2d = <<>>
    /\ d2e = <<>>
    /\ evq = <<>>
    /\ erecv = <<>>
    /\ eloop = <<>>
    /\ unreg = {}
    /\ delivered = <<>>
    /\ dsubs = {}
    /\ eseq = 0

\* Listen(names): register the names, one after the other.  A name that is
\* registered already is not given again.
Listen(names) ==
    /\ lpc \in {"idle", "returned"}
    /\ listens < MaxListens
    /\ etok
    /\ \A i \in DOMAIN names : names[i] \notin subs
    /\ listens' = listens + 1
    /\ lnames' = names
    /\ lidx' = 1
    /\ lconf' = <<>>
    /\ lbefore' = subs
    /\ lerr' = nil
    /\ unreg' = {}
    /\ lpc' = "register"
    /\ UNCHANGED <<subs, etok, e2d, d2e, evq, erecv, eloop, delivered, dsubs, eseq>>

\* send EventRegister(name) for the name under registration
RegisterSend ==
    /\ lpc = "register"
    /\ etok
    /\ e2d' = Append(e2d, Frame("EventRegister", lnames[lidx], <<>>, 0, 0))
    /\ lpc' = "regwait"
    /\ UNCHANGED <<lnames, lidx, lconf, lbefore, lerr, listens, subs, etok, d2e, evq,
                   erecv, eloop, unreg, delivered, dsubs, eseq>>

\* the send fails: the transport is gone, the error is propagated after the
\* rollback
RegisterSendFails ==
    /\ lpc = "register"
    /\ etok
    /\ etok' = FALSE
    /\ lerr' = "ShortWrite"
    /\ lidx' = 1
    /\ lpc' = "rollback"
    /\ UNCHANGED <<lnames, lconf, lbefore, listens, subs, e2d, d2e, evq, erecv, eloop,
                   unreg, delivered, dsubs, eseq>>

RegisterRecv_noRollback ==
    /\ lpc = "regwait"
    /\ d2e # <<>>
    /\ d2e' = Tail(d2e)
    /\ CASE Head(d2e).type = "EventConfirm" ->
              /\ subs' = subs \cup {lnames[lidx]}
              /\ lconf' = Append(lconf, lnames[lidx])
              /\ lidx' = IF lidx = Len(lnames) THEN lidx ELSE lidx + 1
              /\ lpc' = IF lidx = Len(lnames) THEN "listen" ELSE "register"
              /\ UNCHANGED <<lerr, erecv>>
         [] Head(d2e).type = "EventUnknown" ->
              /\ lerr' = "UnknownEvent"
              /\ lidx' = Len(lconf) + 1
              /\ lpc' = "rollback"
              /\ UNCHANGED <<subs, lconf, erecv>>
         [] OTHER ->
              /\ erecv' = Append(erecv, Head(d2e))
              /\ UNCHANGED <<subs, lconf, lidx, lpc, lerr>>
    /\ UNCHANGED <<lnames, lbefore, listens, etok, e2d, evq, eloop, unreg, delivered,
                   dsubs, eseq>>

\* read packets until EventConfirm or EventUnknown; another packet is read
\* past
RegisterRecv ==
    /\ lpc = "regwait"
    /\ d2e # <<>>
    /\ d2e' = Tail(d2e)
    /\ CASE Head(d2e).type = "EventConfirm" ->
              /\ subs' = subs \cup {lnames[lidx]}
              /\ lconf' = Append(lconf, lnames[lidx])
              /\ lidx' = IF lidx = Len(lnames) THEN lidx ELSE lidx + 1
              /\ lpc' = IF lidx = Len(lnames) THEN "listen" ELSE "register"
              /\ UNCHANGED <<lerr, erecv>>
         [] Head(d2e).type = "EventUnknown" ->
              /\ lerr' = "UnknownEvent"
              /\ lidx' = 1
              /\ lpc' = "rollback"
              /\ UNCHANGED <<subs, lconf, erecv>>
         [] OTHER ->
              /\ erecv' = Append(erecv, Head(d2e))
              /\ UNCHANGED <<subs, lconf, lidx, lpc, lerr>>
    /\ UNCHANGED <<lnames, lbefore, listens, etok, e2d, evq, eloop, unreg, delivered,
                   dsubs, eseq>>

\* roll back: issue EventUnregister for the next name that was confirmed; on
\* a transport that is gone the send fails and the name is dropped locally
RollbackSend ==
    /\ lpc = "rollback"
    /\ lidx <= Len(lconf)
    /\ unreg' = unreg \cup {lconf[lidx]}
    /\ IF etok
       THEN /\ e2d' = Append(e2d, Frame("EventUnregister", lconf[lidx], <<>>, 0, 0))
            /\ lpc' = "rbwait"
            /\ UNCHANGED <<subs, lidx>>
       ELSE /\ subs' = subs \ {lconf[lidx]}
            /\ lidx' = lidx + 1
            /\ UNCHANGED <<e2d, lpc>>
    /\ UNCHANGED <<lnames, lconf, lbefore, lerr, listens, etok, d2e, evq, erecv, eloop,
                   delivered, dsubs, eseq>>

\* await the confirmation of a rollback's EventUnregister
RollbackRecv ==
    /\ lpc = "rbwait"
    /\ d2e # <<>>
    /\ d2e' = Tail(d2e)
    /\ IF Head(d2e).type = "EventConfirm"
       THEN /\ subs' = subs \ {lconf[lidx]}
            /\ lidx' = lidx + 1
            /\ lpc' = "rollback"
            /\ UNCHANGED erecv
       ELSE /\ erecv' = Append(erecv, Head(d2e))
            /\ UNCHANGED <<subs, lidx, lpc>>
    /\ UNCHANGED <<lnames, lconf, lbefore, lerr, listens, etok, e2d, evq, eloop, unreg,
                   delivered, dsubs, eseq>>

\* the rollback is done: register fails, Listen returns its error
RollbackDone ==
    /\ lpc = "rollback"
    /\ lidx > Len(lconf)
    /\ lpc' = "returned"
    /\ UNCHANGED <<lnames, lidx, lconf, lbefore, lerr, listens, subs, etok, e2d, d2e,
                   evq, erecv, eloop, unreg, delivered, dsubs, eseq>>

\* the read loop: an Event is decoded and appended to the bounded queue;
\* another packet is a protocol violation and ends the listener
ReadLoop ==
    /\ lpc = "listen"
    /\ d2e # <<>>
    /\ Len(evq) < QueueCap
    /\ d2e' = Tail(d2e)
    /\ IF Head(d2e).type = "Event"
       THEN /\ evq' = Append(evq, decode(NewMessage, Head(d2e).body).m)
            /\ eloop' = Append(eloop, Head(d2e))
            /\ erecv' = Append(erecv, Head(d2e))
            /\ UNCHANGED <<lpc, lerr>>
       ELSE /\ lerr' = "Unexpected"
            /\ lpc' = "closed"
            /\ UNCHANGED <<evq, eloop, erecv>>
    /\ UNCHANGED <<lnames, lidx, lconf, lbefore, listens, subs, etok, e2d, unreg,
                   delivered, dsubs, eseq>>

NextEvent_newest ==
    /\ evq # <<>>
    /\ delivered' = Append(delivered, evq[Len(evq)])
    /\ evq' = SubSeq(evq, 1, Len(evq) - 1)
    /\ UNCHANGED <<lpc, lnames, lidx, lconf, lbefore, lerr, listens, subs, etok, e2d,
                   d2e, erecv, eloop, unreg, dsubs, eseq>>

\* NextEvent: remove and return the oldest queued event
NextEvent ==
    /\ evq # <<>>
    /\ delivered' = Append(delivered, Head(evq))
    /\ evq' = Tail(evq)
    /\ UNCHANGED <<lpc, lnames, lidx, lconf, lbefore, lerr, listens, subs, etok, e2d,
                   d2e, erecv, eloop, unreg, dsubs, eseq>>

\* unregister(names): leave the read loop and unregister the names
Unregister(names) ==
    /\ lpc = "listen"
    /\ \A i \in DOMAIN names : names[i] \in subs
    /\ lnames' = names
    /\ lidx' = 1
    /\ lpc' = "unregister"
    /\ UNCHANGED <<lconf, lbefore, lerr, listens, subs, etok, e2d, d2e, evq, erecv,
                   eloop, unreg, delivered, dsubs, eseq>>

\* send EventUnregister(name) for the next name
UnregisterSend ==
    /\ lpc = "unregister"
    /\ e2d' = Append(e2d, Frame("EventUnregister", lnames[lidx], <<>>, 0, 0))
    /\ lpc' = "unregwait"
    /\ UNCHANGED <<lnames, lidx, lconf, lbefore, lerr, listens, subs, etok, d2e, evq,
                   erecv, eloop, unreg, delivered, dsubs, eseq>>

\* await its confirmation; when all are confirmed Listen has returned
UnregisterRecv ==
    /\ lpc = "unregwait"
    /\ d2e # <<>>
    /\ d2e' = Tail(d2e)
    /\ IF Head(d2e).type = "EventConfirm"
       THEN /\ subs' = subs \ {lnames[lidx]}
            /\ lidx' = IF lidx = Len(lnames) THEN lidx ELSE lidx + 1
            /\ lpc' = IF lidx = Len(lnames) THEN "idle" ELSE "unregister"
            /\ UNCHANGED erecv
       ELSE /\ erecv' = Append(erecv, Head(d2e))
            /\ UNCHANGED <<subs, lidx, lpc>>
    /\ UNCHANGED <<lnames, lconf, lbefore, lerr, listens, etok, e2d, evq, eloop, unreg,
                   delivered, dsubs, eseq>>

\* the daemon answers the oldest frame it has not read on the event transport
DaemonEvAnswer ==
    /\ e2d # <<>>
    /\ e2d' = Tail(e2d)
    /\ IF Head(e2d).type = "EventRegister"
       THEN IF Head(e2d).name \in KnownEvents
            THEN /\ dsubs' = dsubs \cup {Head(e2d).name}
                 /\ d2e' = Append(d2e, Frame("EventConfirm", "", <<>>, 0, 0))
            ELSE /\ dsubs' = dsubs
                 /\ d2e' = Append(d2e, Frame("EventUnknown", "", <<>>, 0, 0))
       ELSE /\ dsubs' = dsubs \ {Head(e2d).name}
            /\ d2e' = Append(d2e, Frame("EventConfirm", "", <<>>, 0, 0))
    /\ UNCHANGED <<lpc, lnames, lidx, lconf, lbefore, lerr, listens, subs, etok, evq,
                   erecv, eloop, unreg, delivered, eseq>>

\* the daemon raises an event the connection is registered for
DaemonEmit(name) ==
    /\ name \in dsubs
    /\ eseq < MaxEvents
    /\ eseq' = eseq + 1
    /\ d2e' = Append(d2e, Frame("Event", name, encode(EventMsg(eseq')).data, 0, eseq'))
    /\ UNCHANGED <<lpc, lnames, lidx, lconf, lbefore, lerr, listens, subs, etok, e2d,
                   evq, erecv, eloop, unreg, delivered, dsubs>>

\* the one command that runs beside the listener
SideCall == [kind |-> "cmd", cmd |-> "list-sas", event |-> ""]

EventNext ==
    \/ \E names \in ListenInputs : Listen(names) /\ UNCHANGED <<codecVars, cmdVars>>
    \/ RegisterSend /\ UNCHANGED <<codecVars, cmdVars>>
    \/ RegisterSendFails /\ UNCHANGED <<codecVars, cmdVars>>
    \/ RegisterRecv /\ UNCHANGED <<codecVars, cmdVars>>
    \/ RollbackSend /\ UNCHANGED <<codecVars, cmdVars>>
    \/ RollbackRecv /\ UNCHANGED <<codecVars, cmdVars>>
    \/ RollbackDone /\ UNCHANGED <<codecVars, cmdVars>>
    \/ ReadLoop /\ UNCHANGED <<codecVars, cmdVars>>
    \/ NextEvent /\ UNCHANGED <<codecVars, cmdVars>>
    \/ \E names \in ListenInputs : Unregister(names) /\ UNCHANGED <<codecVars, cmdVars>>
    \/ UnregisterSend /\ UNCHANGED <<codecVars, cmdVars>>
    \/ UnregisterRecv /\ UNCHANGED <<codecVars, cmdVars>>
    \/ DaemonEvAnswer /\ UNCHANGED <<codecVars, cmdVars>>
    \/ \E name \in EventNames : DaemonEmit(name) /\ UNCHANGED <<codecVars, cmdVars>>
    \/ Lock(1, SideCall) /\ UNCHANGED <<codecVars, evVars>>
    \/ SendRequest(1) /\ UNCHANGED <<codecVars, evVars>>
    \/ RecvReply(1) /\ UNCHANGED <<codecVars, evVars>>
    \/ Unlock(1) /\ UNCHANGED <<codecVars, evVars>>
    \/ DaemonAnswer /\ UNCHANGED <<codecVars, evVars>>

-----------------------------------------------------------------------------
(* Records and their vici tags.  A record is the sequence of its fields; a *)
(* field is [tag, kind, exp, v]: the vici tag, the reflect.Kind, whether   *)
(* the field is exported, the value.  v is a string for a String, [isnil,  *)
(* items] for a []string, [isnil, msg] for a *Message, the record for a    *)
(* Struct, [isnil, rec] for a pointer to a record (rec is the zero record  *)
(* of the type under a nil pointer), a number for an Int.                  *)

errMarshalUnsupportedType == "errMarshalUnsupportedType"
errUnmarshalBadType == "errUnmarshalBadType"
errUnmarshalTypeMismatch == "errUnmarshalTypeMismatch"
errUnmarshalNonMessage == "errUnmarshalNonMessage"
\* reflect.Value.Set panics when the value is not assignable to the field
panicNotAssignable == "panic: value is not assignable"

Dash == <<45>>

newMessageTag(tag) ==
    IF tag = Dash \/ tag = <<>> THEN [name |-> <<>>, skip |-> TRUE]
    ELSE [name |-> tag, skip |-> FALSE]

RECURSIVE emptyMessageElement(_)
emptyMessageElement(rv) ==
    CASE rv.kind = "Slice" -> rv.v.isnil
      [] rv.kind = "Struct" -> \A i \in DOMAIN rv.v : emptyMessageElement(rv.v[i])
      [] rv.kind = "String" -> rv.v = <<>>
      [] rv.kind \in {"Msg", "PtrStruct"} -> rv.v.isnil
      [] OTHER -> rv.v = 0

\* reflect.Zero of a field's type, reflect.New of a record type
RECURSIVE Zero(_)
ZeroField(f) ==
    [f EXCEPT !.v = CASE f.kind = "String" -> <<>>
                      [] f.kind = "Slice" -> [isnil |-> TRUE, items |-> <<>>]
                      [] f.kind = "Msg" -> [isnil |-> TRUE, msg |-> NewMessage]
                      [] f.kind = "PtrStruct" -> [isnil |-> TRUE, rec |-> Zero(f.v.rec)]
                      [] f.kind = "Struct" -> Zero(f.v)
                      [] OTHER -> 0]

Zero(rv) == [i \in DOMAIN rv |-> ZeroField(rv[i])]

RECURSIVE marshalFields(_, _, _)

\* msg.marshal(rv.Interface()) into a new message, then m.addItem(name, msg)
marshalSection(msg, name, r) ==
    IF r.err # nil THEN [m |-> msg, err |-> r.err]
    ELSE addItem(msg, name, PtrV(r.m))

marshalField(msg, name, rv) ==
    CASE rv.kind = "String" -> addItem(msg, name, StringV(rv.v))
      [] rv.kind = "Slice" -> addItem(msg, name, SliceV(rv.v.items))
      [] rv.kind = "Msg" -> addItem(msg, name, PtrV(rv.v.msg))
      [] rv.kind = "PtrStruct" ->
            marshalSection(msg, name, marshalFields(NewMessage, rv.v.rec, 1))
      [] rv.kind = "Struct" ->
            marshalSection(msg, name, marshalFields(NewMessage, rv.v, 1))
      [] OTHER -> [m |-> msg, err |-> errMarshalUnsupportedType]

\* the end of a turn of marshal's loop
marshalStep(r, rv, i) ==
    IF r.err # nil THEN r ELSE marshalFields(r.m, rv, i + 1)

\* for i := 0; i < rt.NumField(); i++ { ... } of marshal
marshalFields(msg, rv, i) ==
    IF i > Len(rv) THEN [m |-> msg, err |-> nil]
    ELSE IF newMessageTag(rv[i].tag).skip \/ ~rv[i].exp \/ emptyMessageElement(rv[i])
    THEN marshalFields(msg, rv, i + 1)
    ELSE marshalStep(marshalField(msg, newMessageTag(rv[i].tag).name, rv[i]), rv, i)

\* m.marshal(v), v a record or a pointer to one
marshal(msg, rv) == marshalFields(msg, rv, 1)

RECURSIVE unmarshalFields(_, _, _)

\* m.unmarshal(v), v = [isnil, rec] a pointer to a record; gives the record
\* as the call leaves it
unmarshal(msg, v) ==
    IF v.isnil THEN [rec |-> v.rec, err |-> errUnmarshalBadType]
    ELSE unmarshalFields(msg, v.rec, 1)

\* a pointer to a record: msg.unmarshal(field.Interface()) writes through it
unmarshalPtr(field, r) ==
    [v |-> [isnil |-> field.v.isnil, rec |-> r.rec], err |-> r.err]

\* a record: unmarshal into reflect.New(field.Type()), then field.Set
unmarshalStruct(field, r) ==
    IF r.err # nil THEN [v |-> field.v, err |-> r.err]
    ELSE [v |-> r.rec, err |-> nil]

\* gives the field's value as the call leaves it
unmarshalField(field, rv) ==
    CASE field.kind = "String" ->
            IF rv.kind = "String" THEN [v |-> rv.v, err |-> nil]
            ELSE [v |-> field.v, err |-> errUnmarshalTypeMismatch]
      [] field.kind = "Slice" ->
            IF rv.kind = "Slice"
            THEN [v |-> [isnil |-> FALSE, items |-> rv.v], err |-> nil]
            ELSE [v |-> field.v, err |-> errUnmarshalTypeMismatch]
      [] field.kind = "Msg" ->
            IF rv.kind = "Ptr"
            THEN [v |-> [isnil |-> FALSE, msg |-> rv.v], err |-> nil]
            ELSE [v |-> field.v, err |-> panicNotAssignable]
      [] field.kind = "PtrStruct" ->
            IF rv.kind # "Ptr" THEN [v |-> field.v, err |-> errUnmarshalNonMessage]
            ELSE unmarshalPtr(field, unmarshal(rv.v, field.v))
      [] field.kind = "Struct" ->
            IF rv.kind # "Ptr" THEN [v |-> field.v, err |-> errUnmarshalNonMessage]
            ELSE unmarshalStruct(field,
                     unmarshal(rv.v, [isnil |-> FALSE, rec |-> Zero(field.v)]))
      [] OTHER -> [v |-> field.v, err |-> nil]

\* the end of a turn of unmarshal's loop
unmarshalStep(msg, rv, i, r) ==
    IF r.err # nil THEN [rec |-> [rv EXCEPT ![i].v = r.v], err |-> r.err]
    ELSE unmarshalFields(msg, [rv EXCEPT ![i].v = r.v], i + 1)

\* for i := 0; i < rt.NumField(); i++ { ... } of unmarshal: the element is
\* looked up under tag.name, which is "" for a field to skip
unmarshalFields(msg, rv, i) ==
    IF i > Len(rv) THEN [rec |-> rv, err |-> nil]
    ELSE IF ~Has(msg, newMessageTag(rv[i].tag).name) \/ ~rv[i].exp
    THEN unmarshalFields(msg, rv, i + 1)
    ELSE unmarshalStep(msg, rv, i,
             unmarshalField(rv[i], msg.data[newMessageTag(rv[i].tag).name]))

-----------------------------------------------------------------------------
(* Inputs of MarshalMessage and UnmarshalMessage *)

Field(tag, kind, v) == [tag |-> tag, kind |-> kind, exp |-> TRUE, v |-> v]

Unexported(f) == [f EXCEPT !.exp = FALSE]

\* the non-zero values a field can hold, [kind, v], records nested d deep
RECURSIVE NonZero(_)
NonZero(d) ==
    {[kind |-> "String", v |-> Yes]}
    \cup {[kind |-> "Slice", v |-> [isnil |-> FALSE, items |-> l]]
          : l \in {<<>>, <<Yes, <<>>>>}}
    \cup {[kind |-> "Msg", v |-> [isnil |-> FALSE, msg |-> s]]
          : s \in {NewMessage, MsgOf(<< <<Ksuccess, StringV(Yes)>> >>, 1)}}
    \cup (IF d = 0 THEN {}
          ELSE {[kind |-> "Struct", v |-> <<Field(Ksuccess, x.kind, x.v)>>]
                : x \in NonZero(d - 1)}
               \cup {[kind |-> "PtrStruct",
                      v |-> [isnil |-> FALSE, rec |-> <<Field(Ksuccess, x.kind, x.v)>>]]
                     : x \in NonZero(d - 1)})

\* the records whose fields are all tagged, exported and non-zero, at every
\* level, of one field or of two
TaggedNonZero ==
    {<<Field(Ksuccess, x.kind, x.v)>> : x \in NonZero(MaxDepth)}
    \cup {<<Field(Ksuccess, x.kind, x.v), Field(Kerrmsg, y.kind, y.v)>>
          : x, y \in NonZero(MaxDepth)}

\* a field does not hold a pointer to a record, at any level
RECURSIVE NoPtrStruct(_)
NoPtrStruct(rv) ==
    \A i \in DOMAIN rv :
        /\ rv[i].kind # "PtrStruct"
        /\ rv[i].kind = "Struct" => NoPtrStruct(rv[i].v)

\* the fields UnmarshalMessage is to leave alone, with what they hold before
\* the call: a field with no tag, with the tag "-", with a tag that names no
\* element, a field that is not exported
FrameFields ==
    {Field(<<>>, "String", Ka),
     Field(Dash, "String", Ka),
     Field(Kb, "String", Ka),
     Unexported(Field(Ksuccess, "String", Ka)),
     Field(<<>>, "Slice", [isnil |-> TRUE, items |-> <<>>]),
     Field(Dash, "Msg", [isnil |-> TRUE, msg |-> NewMessage]),
     Field(<<>>, "Int", 7),
     Field(Dash, "Struct", <<Field(Kerrmsg, "String", Ka)>>),
     Field(<<>>, "PtrStruct",
           [isnil |-> FALSE, rec |-> <<Field(Kerrmsg, "String", Ka)>>])}

\* the targets: one of these fields, then a field tagged success
Targets ==
    {<<f, g>>
     : f \in FrameFields,
       g \in {Field(Ksuccess, "String", Ka),
              Field(Ksuccess, "Struct", <<Field(Kerrmsg, "String", Ka)>>)}}

\* MarshalMessage is given the records above and records with fields that
\* are zero, skipped, not exported or of a kind it does not support
MarshalInputs ==
    TaggedNonZero \cup Targets \cup {Zero(t) : t \in Targets}

-----------------------------------------------------------------------------
(* MarshalMessage and UnmarshalMessage *)

Marshalled(r, res) ==
    /\ rec' = r
    /\ m' = IF res.err = nil THEN res.m ELSE NewMessage
    /\ last' = [op |-> "marshal", err |-> res.err]

\* m, err = MarshalMessage(r): m is a new message, whatever was done before
MarshalMessage ==
    /\ last.op = "init"
    /\ \E r \in MarshalInputs : Marshalled(r, marshal(NewMessage, r))
    /\ wire' = <<>>
    /\ dec' = NewMessage
    /\ target' = <<>>
    /\ out' = <<>>
    /\ UNCHANGED <<cmdVars, evVars>>

Unmarshalled(t, res) ==
    /\ target' = t
    /\ out' = res.rec
    /\ last' = [op |-> "unmarshal", from |-> last.op, err |-> res.err]

\* err = UnmarshalMessage(m, &t): of the message MarshalMessage gave, into a
\* zero record of the type it was given; of a message built by Set, into
\* the targets
UnmarshalMessage ==
    /\ last.op \in {"Set", "marshal"}
    /\ \E t \in (IF last.op = "marshal" THEN {Zero(rec)} ELSE Targets) :
          Unmarshalled(t, unmarshal(m, [isnil |-> FALSE, rec |-> t]))
    /\ UNCHANGED <<m, wire, dec, rec, cmdVars, evVars>>

SchemaNext ==
    \/ \E key \in InKeys, value \in Supported \cup Unsupported : Set(key, value)
    \/ MarshalMessage
    \/ UnmarshalMessage

-----------------------------------------------------------------------------
(* The specifications *)

Init == MsgInit /\ CmdInit /\ EvInit

\* the Message tree and the codec
Spec == Init /\ [][Next]_vars

\* command requests on one session
CmdSpec == Init /\ [][CmdNext]_vars

\* the event listener, beside a command request
EventSpec == Init /\ [][EventNext]_vars

\* records marshalled to messages and messages unmarshalled to records
SchemaSpec == Init /\ [][SchemaNext]_vars

-----------------------------------------------------------------------------
(* Properties of the Message tree and the codec *)

\* C1: decoding the bytes encode gave for a well-formed message (every key
\* of 1 to 255 bytes, at every level) into a fresh message succeeds and gives
\* a message equal to the encoded one, keys in the same order at every level.
C1_RoundTrip ==
    (last.op = "decode" /\ last.in.kind = "wire" /\ WellFormed(m))
        => (last.err = nil /\ dec = m /\ Keys(dec) = Keys(m))

\* a round trip of a message of two keys, one a section holding two keys
C1_Witness ==
    /\ last.op = "decode" /\ last.in.kind = "wire" /\ WellFormed(m)
    /\ Len(m.keys) = 2
    /\ \E k \in DOMAIN m.data :
          /\ m.data[k].kind = "Ptr"
          /\ Len(m.data[k].v.keys) = 2
          /\ \E j \in DOMAIN m.data[k].v.data : m.data[k].v.data[j].kind = "Ptr"
    /\ \E k \in DOMAIN m.data : m.data[k] = SliceV(<<>>)
    /\ dec = m

\* C3: a successful Set appends a new key at the end of the key order and
\* leaves the order as it is for a key already there; the element is stored
\* whatever was stored before, the other elements stay, and no key is listed
\* twice.
C3_OrderUnderSet ==
    [][(last'.op = "Set" /\ last'.err = nil) =>
          /\ Keys(m') = IF Has(m, last'.key) THEN Keys(m)
                        ELSE Append(Keys(m), last'.key)
          /\ Get(m', last'.key) = last'.value
          /\ DOMAIN m'.data = (DOMAIN m.data) \cup {last'.key}
          /\ \A k \in (DOMAIN m.data) \ {last'.key} : m'.data[k] = m.data[k]
          /\ NoDup(Keys(m'))
          /\ {Keys(m')[i] : i \in DOMAIN Keys(m')} = DOMAIN m'.data]_vars

\* the first of two keys was set again, after the second was added, and now
\* holds a section
C3_Witness ==
    /\ last.op = "Set" /\ last.err = nil
    /\ Len(m.keys) = 2
    /\ last.key = m.keys[1]
    /\ last.value.kind = "Ptr"
    /\ m.data[m.keys[1]] = last.value

\* C7: decode fails with a malformed-message error when a byte that starts
\* no element stands where an element start is expected (top level, section
\* body, list body), and when the input ends in a byte that starts an
\* element it does not complete.
C7_BadStartRejected ==
    (last.op = "decode" /\ last.in.kind \in {"badstart", "trailing"})
        => last.err \in errMalformedMessage

\* C8: decode of the encoding of a non-empty message cut by its last byte,
\* or with a list or section end marker left out, fails with a
\* malformed-message error.
C8_TruncatedMalformed ==
    (last.op = "decode" /\ last.in.kind \in {"truncated", "unterminated"}
     /\ Len(m.keys) > 0)
        => last.err \in errMalformedMessage

\* C9: encode fails with the encoding error when a key, at any level, is
\* empty or longer than 255 bytes, and the bytes encode returns decode back
\* to the same keys.
C9_KeyLengthChecked ==
    /\ (last.op = "encode" /\ \E k \in AllKeys(m) : Len(k) = 0 \/ Len(k) >= U8)
          => last.err = errEncoding
    /\ (last.op = "decode" /\ last.in.kind = "wire")
          => (last.err = nil /\ Keys(dec) = Keys(m))

\* C10, as claimed: Err fails exactly when success is a Value other than
\* "yes", and then carries the contents of errmsg, the empty text when there
\* is no errmsg.
C10_ErrValueOnly ==
    last.op = "Err" =>
        /\ (last.err # nil) <=>
              (Has(m, Ksuccess) /\ m.data[Ksuccess].kind = "String"
               /\ m.data[Ksuccess].v # Yes)
        /\ (last.err # nil) =>
              /\ last.err = errCommandFailed
              /\ ~Has(m, Kerrmsg) => last.text = <<>>
              /\ (Has(m, Kerrmsg) /\ m.data[Kerrmsg].kind = "String")
                    => last.text = m.data[Kerrmsg].v

\* C10, amended: Err fails exactly when the message holds an element named
\* success that is not the Value "yes", a List or a Section included; it
\* then carries errmsg as %v prints it: the contents of a Value, <nil> when
\* there is no errmsg.
C10_ErrAnyElement ==
    last.op = "Err" =>
        /\ (last.err = nil) <=>
              (~Has(m, Ksuccess) \/ m.data[Ksuccess] = StringV(Yes))
        /\ (last.err # nil) =>
              /\ last.err = errCommandFailed
              /\ ~Has(m, Kerrmsg) => last.text = NilText
              /\ (Has(m, Kerrmsg) /\ m.data[Kerrmsg].kind = "String")
                    => last.text = m.data[Kerrmsg].v

\* Err has failed on a message whose success is a List and that has no errmsg
C10_Witness ==
    /\ last.op = "Err" /\ last.err = errCommandFailed
    /\ Has(m, Ksuccess) /\ m.data[Ksuccess].kind = "Slice"
    /\ ~Has(m, Kerrmsg)
    /\ last.text = NilText

-----------------------------------------------------------------------------
(* Properties of command requests *)

\* t holds the command transport: it is between acquiring and releasing
Holding(t) == pc[t] \notin {"idle", "done"}

\* t has a request on the wire whose answer it has not read to the end
InFlight(t) == pc[t] \in {"recv", "regwait", "streamrecv", "unregwait"}

Returned(t) == pc[t] \in {"unlock", "done"}

\* the place in the log of the wire of t's CmdRequest, 0 when there is none
ReqIndex(t) ==
    IF \E i \in DOMAIN clog : clog[i].type = "CmdRequest" /\ clog[i].by = t
    THEN CHOOSE i \in DOMAIN clog : clog[i].type = "CmdRequest" /\ clog[i].by = t
    ELSE 0

\* the place of the first final answer after place i, 0 when there is none
RespIndex(i) ==
    IF \E j \in DOMAIN clog : j > i /\ clog[j].type \in {"CmdResponse", "CmdUnknown"}
    THEN CHOOSE j \in DOMAIN clog :
            /\ j > i /\ clog[j].type \in {"CmdResponse", "CmdUnknown"}
            /\ \A k \in DOMAIN clog :
                  (k > i /\ clog[k].type \in {"CmdResponse", "CmdUnknown"}) => j <= k
    ELSE 0

\* C2: at most one request is in flight on the command transport, only the
\* holder of the mutex is at a step that reads or writes it, and a call
\* returns the answer whose frame follows its own request on the wire.
C2_Linearized ==
    /\ Cardinality({t \in Threads : InFlight(t)}) <= 1
    /\ \A t \in Threads : Holding(t) => mux = t
    /\ \A t \in Threads :
          (Returned(t) /\ call[t].kind = "cmd") =>
              /\ ret[t].status \in {"ok", "UnknownCommand"}
              /\ ReqIndex(t) > 0 /\ ReqIndex(t) < Len(clog)
              /\ clog[ReqIndex(t) + 1] = ret[t].frame
              /\ ret[t].frame.by = t
              /\ ret[t].status = "ok" => ret[t].reply = ReplyMsg(t)
    /\ \A t \in Threads :
          (Returned(t) /\ call[t].kind = "stream" /\ ret[t].status = "ok") =>
              /\ Len(stream[t]) > 0
              /\ stream[t][Len(stream[t])] = ReplyMsg(t)

\* one call has returned its reply and another caller's streamed command is
\* in flight
C2_Witness ==
    \E t, u \in Threads :
        /\ t # u
        /\ pc[t] = "done" /\ call[t].kind = "cmd" /\ ret[t].status = "ok"
        /\ pc[u] = "streamrecv" /\ d2c # <<>>

\* the messages of the Event frames named name among clog[i+1 .. j-1]
EventsBetween(i, j, name) ==
    LET Wanted(f) == f.type = "Event" /\ f.name = name
        sel == SelectSeq(SubSeq(clog, i + 1, j - 1), Wanted)
    IN [k \in 1..Len(sel) |-> EventMsg(sel[k].n)]

\* C4: a streamed command whose registration was confirmed returns the
\* Events of the name asked for that lie on the wire between its CmdRequest
\* and the final CmdResponse, in wire order, then the CmdResponse; the
\* mutex is held from the EventRegister to the confirmation of the
\* EventUnregister, and no other caller's frame lies among its frames.
C4_StreamOrder ==
    /\ \A t \in Threads :
          (call[t].kind = "stream"
           /\ pc[t] \in {"regwait", "send", "streamrecv", "unregister", "unregwait"})
              => mux = t
    /\ \A t \in Threads :
          (Returned(t) /\ call[t].kind = "stream" /\ ret[t].status = "ok") =>
              /\ ReqIndex(t) > 0
              /\ RespIndex(ReqIndex(t)) > ReqIndex(t)
              /\ clog[RespIndex(ReqIndex(t))].type = "CmdResponse"
              /\ stream[t] =
                    EventsBetween(ReqIndex(t), RespIndex(ReqIndex(t)), call[t].event)
                    \o <<ReplyMsg(clog[RespIndex(ReqIndex(t))].by)>>
              /\ \A i, j, k \in DOMAIN clog :
                    (i < k /\ k < j /\ clog[i].by = t /\ clog[j].by = t)
                        => clog[k].by = t

\* a streamed command has returned two events and the response, in a run
\* in which the other caller was answered too
C4_Witness ==
    \E t, u \in Threads :
        /\ t # u
        /\ pc[t] = "done" /\ call[t].kind = "stream" /\ ret[t].status = "ok"
        /\ Len(stream[t]) = 3
        /\ stream[t][1] # stream[t][2]
        /\ pc[u] = "done"

\* a streamed command has returned one event and the response while the
\* daemon had sent an event of another name in between
C4_WitnessOtherName ==
    \E t \in Threads :
        /\ pc[t] = "done" /\ call[t].kind = "stream" /\ ret[t].status = "ok"
        /\ Len(stream[t]) = 2
        /\ \E k \in DOMAIN clog : clog[k].type = "Event" /\ clog[k].name # call[t].event

-----------------------------------------------------------------------------
(* Properties of the event listener *)

\* the messages the Event frames carry
Msgs(frames) == [k \in 1..Len(frames) |-> EventMsg(frames[k].n)]

IsPrefix(a, b) == Len(a) <= Len(b) /\ SubSeq(b, 1, Len(a)) = a

-----------------------------------------------------------------------------
(* Properties of MarshalMessage and UnmarshalMessage *)

\* C11: for a record whose fields are all tagged and non-zero (strings,
\* string lists, messages, records and pointers to records), MarshalMessage
\* succeeds, and UnmarshalMessage of its message into a zero record of the
\* same type succeeds and leaves a record equal to the one marshalled.
C11_SchemaRoundTrip ==
    /\ (last.op = "marshal" /\ rec \in TaggedNonZero) => last.err = nil
    /\ (last.op = "unmarshal" /\ last.from = "marshal" /\ rec \in TaggedNonZero
        /\ target = Zero(rec))
          => (last.err = nil /\ out = rec)

\* C12: UnmarshalMessage leaves every field of the target as it was that has
\* no tag, has the tag "-", or has a tag that is not a key of the message,
\* whatever keys the message holds, the zero-length key included.
C12_UnmarshalFrame ==
    last.op = "unmarshal" =>
        \A i \in DOMAIN target :
            (newMessageTag(target[i].tag).skip \/ ~Has(m, target[i].tag))
                => out[i] = target[i]

-----------------------------------------------------------------------------
(* The Message tree stays well-formed *)

\* keys lists no key twice and lists the keys that hold an element, in msg
\* and in every section under it
RECURSIVE WellKeyed(_)
WellKeyed(msg) ==
    /\ NoDup(msg.keys)
    /\ {msg.keys[i] : i \in DOMAIN msg.keys} = DOMAIN msg.data
    /\ \A k \in DOMAIN msg.data : msg.data[k].kind = "Ptr" => WellKeyed(msg.data[k].v)

\* C13: after every Set, failed or not, and every decode, failed part-way or
\* not, the key order of the message lists no key twice and lists exactly
\* the keys that hold an element; a Set that fails leaves the key order and
\* the elements as they were.
C13_WellKeyed ==
    [][/\ WellKeyed(m')
       /\ WellKeyed(dec')
       /\ (last'.op = "Set" /\ last'.err # nil) => m' = m]_vars

\* decode has failed part-way through the bytes of a message of two keys,
\* after it stored the first
C13_Witness ==
    /\ last.op = "decode" /\ last.err # nil
    /\ last.in.kind \in {"truncated", "unterminated"}
    /\ Len(m.keys) = 2
    /\ dec.keys = <<m.keys[1]>>
    /\ DOMAIN dec.data = {m.keys[1]}

=============================================================================
